---- MODULE Spec2Model ----
(***************************************************************************)
(* Sequence identifier allocator (app/utils/sequence.py) run inside the    *)
(* database session that DatabaseMiddleware (app/bot/middlewares.py) opens *)
(* around every handler.                                                   *)
(*                                                                         *)
(* The store is one table id_sequences keyed by seq_key.  A session sees   *)
(* the committed rows plus its own uncommitted writes; SELECT ... FOR      *)
(* UPDATE takes the row lock of the key and keeps it until the session's   *)
(* transaction ends; a second INSERT of a key is rejected by the key's     *)
(* uniqueness constraint.                                                  *)
(***************************************************************************)
EXTENDS Integers, Sequences, FiniteSets, TLC

VARIABLES
    userIdBase,  \* SEQ_INIT_CONFIG[USER_ID][0], drawn once at import time
    db,          \* committed rows of id_sequences: key -> row
    lock,        \* row lock of each key: the session holding it, or NoTxn
    pend,        \* per session: uncommitted UPDATEs, key -> current_value
    pc,          \* per session: position of its coroutine
    arg,         \* per session: arguments of the sequence call in progress
    row,         \* per session: the row fetched (or about to be inserted)
    res,         \* per session: what the last sequence call returned
    err,         \* per session: the exception that is propagating, if any
    ncalls,      \* generate_sequence_id and init_sequence calls of handlers
    base,        \* history: per session, key -> committed value when locked
    rets,        \* history: values returned in the open transaction
    log,         \* history: per key, returned values in commit order
    maxIssued,   \* history: per key, the greatest value returned so far
    factory,     \* async_session_factory is not None
    data,        \* per session: data["db"] of the update being handled
    time,        \* time.time(), in units of a quarter of a second
    lastTime,    \* ThrottlingMiddleware._user_last_time: user id -> time
    lastPass,    \* history: user id -> time its last update was passed on
    ev           \* history: the last update the throttle decided on

vars == <<userIdBase, db, lock, pend, pc, arg, row, res, err, ncalls, base,
          rets, log, maxIssued, factory, data, time, lastTime, lastPass, ev>>

\* the state of ThrottlingMiddleware and its clock
throttle == <<time, lastTime, lastPass, ev>>

-----------------------------------------------------------------------------
(* Bounds of the model *)

MaxCalls == 2        \* calls of handlers with arguments, in one behaviour
MaxLiveCalls == 4    \* the same, where handlers allocate on several keys

Txns == {"t1", "t2"}
NoTxn == "none"

-----------------------------------------------------------------------------
(* Program constants *)

None == "<None>"

UserIdBaseMin == 1000000
UserIdBaseMax == 1001000
PadWidth == 6

\* class SeqKey(str, Enum): member name -> value
SeqKey == [USER_ID |-> "user_id", ORDER_NO |-> "order_no"]

Enum(name) == [isEnum |-> TRUE, v |-> name]
Plain(s) == [isEnum |-> FALSE, v |-> s]

\* key = seq_key.value if isinstance(seq_key, SeqKey) else seq_key
KeyOf(seq_key) == IF seq_key.isEnum THEN SeqKey[seq_key.v] ELSE seq_key.v

Keys == {"user_id", "order_no", "custom"}

SeqKeyInputs ==
    {Enum("USER_ID"), Enum("ORDER_NO"), Plain("user_id"), Plain("order_no"),
     Plain("custom")}

KnownKeys == {SeqKey[n] : n \in DOMAIN SeqKey}

Config(cv, smin, smax, prefix, desc) ==
    [cv |-> cv, smin |-> smin, smax |-> smax, prefix |-> prefix, desc |-> desc]

\* SEQ_INIT_CONFIG, given the import-time draw of the user_id start value
SEQ_INIT_CONFIG(ubase) ==
    [k \in KnownKeys |->
        IF k = SeqKey.USER_ID
        THEN Config(ubase, 1, 20, None, "UserID")
        ELSE Config(1, 1, 1, "ORD", "RechargeOrderNo")]

\* keyword defaults of init_sequence
InitDefaults == Config(1000000, 1, 1, None, None)

\* the values callers pass to init_sequence
CallerDefaults ==
    {Config(0, 1, 1, "ORD", "orders"), Config(1234565, 1, 2, "", None)}

\* values a caller can pass as well: init_sequence takes any integers
UncheckedDefaults ==
    {Config(5, 0, 0, None, None), Config(5, 3, 1, "X", None)}

-----------------------------------------------------------------------------
(* Formatting *)

Digit(d) ==
    CASE d = 0 -> "0" [] d = 1 -> "1" [] d = 2 -> "2" [] d = 3 -> "3"
      [] d = 4 -> "4" [] d = 5 -> "5" [] d = 6 -> "6" [] d = 7 -> "7"
      [] d = 8 -> "8" [] d = 9 -> "9"

RECURSIVE Str(_)
\* str(n) for n >= 0
Str(n) == IF n < 10 THEN Digit(n) ELSE Str(n \div 10) \o Digit(n % 10)

RECURSIVE ZFill(_, _)
\* s.zfill(w) for a string of digits
ZFill(s, w) == IF Len(s) >= w THEN s ELSE ZFill("0" \o s, w)

\* datetime_format as the list of its directives
DefaultFormat == <<"%y", "%m", "%d", "%H", "%M">>
DateFormat == <<"%Y", "%m", "%d">>

Options(with_prefix, with_datetime, datetime_format) ==
    [with_prefix |-> with_prefix, with_datetime |-> with_datetime,
     datetime_format |-> datetime_format]

\* the keyword arguments callers pass to generate_sequence_id
CallerOptions ==
    {Options(FALSE, FALSE, DefaultFormat), Options(TRUE, FALSE, DefaultFormat),
     Options(FALSE, TRUE, DateFormat), Options(TRUE, TRUE, DefaultFormat)}

\* values of datetime.now()
Clock ==
    {[Y |-> 2023, m |-> 12, d |-> 23, H |-> 15, M |-> 30],
     [Y |-> 2024, m |-> 1, d |-> 5, H |-> 9, M |-> 7]}

Directive(now, tok) ==
    CASE tok = "%y" -> ZFill(Str(now.Y % 100), 2)
      [] tok = "%Y" -> ZFill(Str(now.Y), 4)
      [] tok = "%m" -> ZFill(Str(now.m), 2)
      [] tok = "%d" -> ZFill(Str(now.d), 2)
      [] tok = "%H" -> ZFill(Str(now.H), 2)
      [] tok = "%M" -> ZFill(Str(now.M), 2)

RECURSIVE Strftime(_, _)
Strftime(now, fmt) ==
    IF fmt = <<>> THEN ""
    ELSE Directive(now, Head(fmt)) \o Strftime(now, Tail(fmt))

Truthy(s) == s # None /\ s # ""

\* what a call returned, and the line it returned from
IntResult(n) == [type |-> "int", value |-> n, line |-> 54]
StrResult(s) == [type |-> "str", value |-> s, line |-> 62]
\* init_sequence(key) returned None: early (line 75) or after the commit
NoneResult(line, key) ==
    [type |-> "None", value |-> None, line |-> line, key |-> key]
\* no call has returned since the session's last step
NoResult == [type |-> "-", value |-> None, line |-> 0]

\* variant: the timestamp is put before the prefix
FormatResult_DateFirst(new_value, prefix, with_prefix, with_datetime, fmt, now) ==
    IF ~with_prefix /\ ~with_datetime
    THEN IntResult(new_value)
    ELSE StrResult(
            (IF with_datetime THEN Strftime(now, fmt) ELSE "")
            \o (IF with_prefix /\ Truthy(prefix) THEN prefix ELSE "")
            \o ZFill(Str(new_value), PadWidth))

\* variant: the bare integer is returned whenever no part precedes the number
FormatResult_BareNumber(new_value, prefix, with_prefix, with_datetime, fmt, now) ==
    IF ~(with_prefix /\ Truthy(prefix)) /\ ~with_datetime
    THEN IntResult(new_value)
    ELSE StrResult(
            (IF with_prefix /\ Truthy(prefix) THEN prefix ELSE "")
            \o (IF with_datetime THEN Strftime(now, fmt) ELSE "")
            \o ZFill(Str(new_value), PadWidth))

\* the return value of generate_sequence_id
FormatResult(new_value, prefix, with_prefix, with_datetime, fmt, now) ==
    IF ~with_prefix /\ ~with_datetime
    THEN IntResult(new_value)
    ELSE StrResult(
            (IF with_prefix /\ Truthy(prefix) THEN prefix ELSE "")
            \o (IF with_datetime THEN Strftime(now, fmt) ELSE "")
            \o ZFill(Str(new_value), PadWidth))

\* the outcomes of random.randint(a, b) that are drawn: both ends of a..b and
\* its middle (all of a..b when it has at most three values)
RandInt(a, b) == {a, (a + b) \div 2, b}

\* variant: the step is drawn one too high
Steps_OneHigh(step_min, step_max) ==
    IF step_min = step_max THEN {step_min + 1}
    ELSE RandInt(step_min + 1, step_max + 1)

\* variant: the step is drawn one too low
Steps_OneLow(step_min, step_max) ==
    IF step_min = step_max THEN {step_min - 1}
    ELSE RandInt(step_min - 1, step_max - 1)

\* step_min if step_min == step_max else random.randint(step_min, step_max)
Steps(step_min, step_max) ==
    IF step_min = step_max THEN {step_min} ELSE RandInt(step_min, step_max)

-----------------------------------------------------------------------------
(* The store *)

EmptyMap == [k \in {} |-> 0]

\* variant: the read misses the session's own uncommitted UPDATE
ViewCv_Stale(t, k) == db[k].cv

\* current_value of key k as session t reads it
ViewCv(t, k) == IF k \in DOMAIN pend[t] THEN pend[t][k] ELSE db[k].cv

\* variant: the commit makes nothing but an INSERT durable
Committed_InsertOnly(t) == db

\* variant: the end of a transaction leaves its row locks in place
Released_Keeps(t) == lock

\* variant: the UPDATE has no WHERE clause and writes every row
Committed_EveryRow(t) ==
    [k \in DOMAIN db |->
        IF pend[t] # EmptyMap
        THEN [db[k] EXCEPT !.cv = pend[t][CHOOSE x \in DOMAIN pend[t] : TRUE]]
        ELSE db[k]]

\* the rows after the session's pending UPDATEs are made durable
Committed(t) ==
    [k \in DOMAIN db |->
        IF k \in DOMAIN pend[t] THEN [db[k] EXCEPT !.cv = pend[t][k]]
        ELSE db[k]]

\* variant: the rollback keeps the pending UPDATEs
RolledBack_Keeps(t) == Committed(t)

\* the rows after the session's pending UPDATEs are discarded
RolledBack(t) == db

\* the row locks after session t's transaction ended
Released(t) == [k \in Keys |-> IF lock[k] = t THEN NoTxn ELSE lock[k]]

\* the values the session returned, appended to the keys' commit-order logs
\* with the line of the commit that made them durable
Logged(t, line) ==
    [k \in Keys |->
        LET mine == SelectSeq(rets[t], LAMBDA e : e.key = k) IN
        log[k] \o [i \in 1..Len(mine) |-> [mine[i] EXCEPT !.at = line]]]

\* variant: the row lock is given up when the holder has written, not when
\* its transaction ends
LockFree_UntilWrite(t, k) ==
    lock[k] \in {NoTxn, t} \/ pc[lock[k]] # "locked"

\* variant: FOR UPDATE locks the whole table
LockFree_TableLock(t, k) == \A x \in Keys : lock[x] \in {NoTxn, t}

\* variant: a plain SELECT, which never waits
LockFree_NoWait(t, k) == TRUE

\* SELECT ... FOR UPDATE waits while another session holds the row lock
LockFree(t, k) == lock[k] \in {NoTxn, t}

\* some other session has inserted key k and not yet committed: an INSERT of
\* the same key waits for that transaction to end
InsertPending(t, k) ==
    \E o \in Txns \ {t} : pc[o] = "ins" /\ arg[o].key = k

\* the uniqueness constraint on seq_key rejects the INSERT of key k
UniqueViolation(k) == k \in DOMAIN db

NoError == [type |-> "-"]
ValueError(key) == [type |-> "ValueError", key |-> key]
IntegrityError(key) == [type |-> "IntegrityError", key |-> key]
HandlerError == [type |-> "Exception"]
\* the store aborts a statement that waits in a cycle of lock waits
DeadlockError == [type |-> "DBAPIError", key |-> None]
\* random.randint: empty range
EmptyRange == [type |-> "ValueError", key |-> None]

-----------------------------------------------------------------------------

NoArg == [op |-> "none"]

\* data.get("db") is None
NoDb == "none"

\* event.message / event.callback_query carries no from_user
NoUser == -1
UserIds == {0, 7, 8}

\* rate_limit=0.5, in units of a quarter of a second
RateLimit == 2
\* time.time() when the first update arrives, and where the model stops it
StartTime == 4
MaxTime == 7

NoEvent == [user |-> NoUser, out |-> "-", slot |-> NoTxn]

\* no update has arrived yet
NoUpdates ==
    /\ data = [t \in Txns |-> NoDb]
    /\ time = StartTime
    /\ lastTime = EmptyMap
    /\ lastPass = EmptyMap
    /\ ev = NoEvent

\* variant: the session factory is looked at before data["db"]
Branch_FactoryFirst(d, fac) ==
    IF fac THEN "polling" ELSE IF d # NoDb THEN "webhook" ELSE "nofactory"

\* the branch DatabaseMiddleware.__call__ takes
Branch(d, fac) ==
    IF d # NoDb THEN "webhook" ELSE IF ~fac THEN "nofactory" ELSE "polling"

Init ==
    /\ userIdBase \in {UserIdBaseMin, UserIdBaseMax}
    /\ db = EmptyMap
    /\ lock = [k \in Keys |-> NoTxn]
    /\ pend = [t \in Txns |-> EmptyMap]
    /\ pc = [t \in Txns |-> "idle"]
    /\ arg = [t \in Txns |-> NoArg]
    /\ row = [t \in Txns |-> None]
    /\ res = [t \in Txns |-> NoResult]
    /\ err = [t \in Txns |-> NoError]
    /\ ncalls = 0
    /\ base = [t \in Txns |-> EmptyMap]
    /\ rets = [t \in Txns |-> <<>>]
    /\ log = [k \in Keys |-> <<>>]
    /\ maxIssued = [k \in Keys |-> 0]
    /\ factory = TRUE
    /\ NoUpdates

(* DatabaseMiddleware.__call__ up to the call of the handler: in polling   *)
(* mode a session is opened and stored in data["db"]; a session that is    *)
(* already there is used; without a factory there is none                  *)
Enter(t, at) ==
    /\ pc[t] = at
    /\ pc' = [pc EXCEPT ![t] = "run"]
    /\ data' = [data EXCEPT ![t] =
                    IF Branch(@, factory) = "polling" THEN "session" ELSE @]
    /\ UNCHANGED <<userIdBase, db, lock, pend, arg, row, res, err, ncalls,
                   base, rets, log, maxIssued, factory>>

(* an update arrives in polling mode and reaches the handler *)
Begin(t) ==
    /\ Enter(t, "idle")
    /\ UNCHANGED throttle

\* the session holds the row lock of key k and has fetched the row
Fetched(t, k) ==
    /\ lock' = [lock EXCEPT ![k] = t]
    /\ row' = [row EXCEPT ![t] = [db[k] EXCEPT !.cv = ViewCv(t, k)]]
    /\ base' = [base EXCEPT ![t] =
                    IF k \in DOMAIN @ THEN @ ELSE @ @@ (k :> db[k].cv)]
    /\ pc' = [pc EXCEPT ![t] = "locked"]

\* variant: the missing sequence is created on first use before the error
NotFound_Creates(t, k) ==
    /\ db' = db @@ (k :> InitDefaults)
    /\ err' = [err EXCEPT ![t] = ValueError(k)]
    /\ pc' = [pc EXCEPT ![t] = "fail"]
    /\ UNCHANGED <<arg, lock, row, base>>

\* if row is None: raise ValueError(f"Sequence '{key}' not found")
NotFound(t, k) ==
    /\ err' = [err EXCEPT ![t] = ValueError(k)]
    /\ pc' = [pc EXCEPT ![t] = "fail"]
    /\ UNCHANGED <<db, arg, lock, row, base>>

(* generate_sequence_id is called: SELECT ... FOR UPDATE is issued; it     *)
(* returns no row (ValueError), returns the row and its lock, or waits     *)
GenSelectN(t, seq_key, opts, max) ==
    /\ pc[t] = "run"
    /\ data[t] # NoDb
    /\ ncalls < max
    /\ ncalls' = ncalls + 1
    /\ res' = [res EXCEPT ![t] = NoResult]
    /\ LET k == KeyOf(seq_key) IN
        IF k \notin DOMAIN db
        THEN NotFound(t, k)
        ELSE /\ arg' = [arg EXCEPT ![t] =
                        [op |-> "generate", key |-> k, opts |-> opts,
                         contended |-> ~LockFree(t, k)]]
             /\ IF LockFree(t, k)
                THEN Fetched(t, k)
                ELSE /\ pc' = [pc EXCEPT ![t] = "select"]
                     /\ UNCHANGED <<lock, row, base>>
             /\ UNCHANGED <<db, err>>
    /\ UNCHANGED <<factory, data, throttle>>
    /\ UNCHANGED <<userIdBase, pend, rets, log, maxIssued>>

GenSelect(t, seq_key, opts) == GenSelectN(t, seq_key, opts, MaxCalls)

(* generate_sequence_id: the SELECT ... FOR UPDATE that waited gets the lock *)
GenAcquire(t) ==
    /\ pc[t] = "select"
    /\ LockFree(t, arg[t].key)
    /\ Fetched(t, arg[t].key)
    /\ UNCHANGED <<factory, data, throttle>>
    /\ UNCHANGED <<userIdBase, db, pend, arg, res, err, ncalls, rets, log,
                   maxIssued>>

(* generate_sequence_id: step, new_value, UPDATE, formatted return;         *)
(* random.randint(a, b) raises ValueError when a > b                       *)
GenUpdate(t) ==
    /\ pc[t] = "locked"
    /\ IF row[t].smin > row[t].smax
       THEN /\ err' = [err EXCEPT ![t] = EmptyRange]
            /\ pc' = [pc EXCEPT ![t] = "fail"]
            /\ UNCHANGED <<pend, res, rets, maxIssued>>
       ELSE /\ \E step \in Steps(row[t].smin, row[t].smax), now \in Clock :
                LET k == arg[t].key
                    new_value == row[t].cv + step
                IN
                /\ pend' = [pend EXCEPT ![t] =
                                [x \in DOMAIN @ \cup {k} |->
                                    IF x = k THEN new_value ELSE @[x]]]
                /\ res' = [res EXCEPT ![t] =
                            FormatResult(new_value, row[t].prefix,
                                         arg[t].opts.with_prefix,
                                         arg[t].opts.with_datetime,
                                         arg[t].opts.datetime_format, now)]
                /\ rets' = [rets EXCEPT ![t] =
                            Append(@, [key |-> k, val |-> new_value, by |-> t,
                                       contended |-> arg[t].contended,
                                       at |-> 0])]
                /\ maxIssued' = [maxIssued EXCEPT ![k] =
                                    IF new_value > @ THEN new_value ELSE @]
            /\ pc' = [pc EXCEPT ![t] = "run"]
            /\ UNCHANGED err
    /\ arg' = [arg EXCEPT ![t] = NoArg]
    /\ row' = [row EXCEPT ![t] = None]
    /\ UNCHANGED <<factory, data, throttle>>
    /\ UNCHANGED <<userIdBase, db, lock, ncalls, base, log>>

InitArg(seq_key, defaults, todo) ==
    [op |-> "init", seq_key |-> seq_key, key |-> KeyOf(seq_key),
     defaults |-> defaults, todo |-> todo]

\* where the coroutine is once init_sequence has returned: in the handler, or
\* in the next round of init_all_sequences' loop
AfterInitPc(a) == IF a.todo = <<>> THEN "run" ELSE "init"
AfterInitArg(a) ==
    IF a.todo = <<>> THEN NoArg
    ELSE InitArg(Head(a.todo), InitDefaults, Tail(a.todo))

\* variant: the caller's values are always used
Effective_CallerWins(key, defaults, ubase) == defaults

\* config = SEQ_INIT_CONFIG.get(key); the known configuration wins
Effective(key, defaults, ubase) ==
    IF key \in DOMAIN SEQ_INIT_CONFIG(ubase)
    THEN SEQ_INIT_CONFIG(ubase)[key]
    ELSE defaults

\* variant: an existing row is overwritten with the initial configuration
Existence_Overwrites(t, a) ==
    IF a.key \in DOMAIN db
    THEN /\ pc' = [pc EXCEPT ![t] = AfterInitPc(a)]
         /\ arg' = [arg EXCEPT ![t] = AfterInitArg(a)]
         /\ res' = [res EXCEPT ![t] = NoneResult(75, a.key)]
         /\ db' = [db EXCEPT ![a.key] = Effective(a.key, a.defaults, userIdBase)]
    ELSE /\ pc' = [pc EXCEPT ![t] = "insert"]
         /\ arg' = [arg EXCEPT ![t] = a]
         /\ res' = [res EXCEPT ![t] = NoResult]
         /\ UNCHANGED db

\* init_sequence with arguments a: SELECT 1 ... ; return if the row exists
Existence(t, a) ==
    /\ IF a.key \in DOMAIN db
       THEN /\ pc' = [pc EXCEPT ![t] = AfterInitPc(a)]
            /\ arg' = [arg EXCEPT ![t] = AfterInitArg(a)]
            /\ res' = [res EXCEPT ![t] = NoneResult(75, a.key)]
       ELSE /\ pc' = [pc EXCEPT ![t] = "insert"]
            /\ arg' = [arg EXCEPT ![t] = a]
            /\ res' = [res EXCEPT ![t] = NoResult]
    /\ UNCHANGED db

(* the handler calls init_sequence *)
InitSelect(t, seq_key, defaults) ==
    /\ pc[t] = "run"
    /\ data[t] # NoDb
    /\ ncalls < MaxCalls
    /\ ncalls' = ncalls + 1
    /\ Existence(t, InitArg(seq_key, defaults, <<>>))
    /\ UNCHANGED <<factory, data, throttle>>
    /\ UNCHANGED <<userIdBase, lock, pend, row, err, base, rets, log, maxIssued>>

(* the handler calls init_all_sequences: for seq_key in SEQ_INIT_CONFIG *)
InitAll(t) ==
    /\ pc[t] = "run"
    /\ data[t] # NoDb
    /\ Existence(t, InitArg(Enum("USER_ID"), InitDefaults,
                            <<Enum("ORDER_NO")>>))
    /\ UNCHANGED <<factory, data, throttle>>
    /\ UNCHANGED <<userIdBase, lock, pend, row, err, ncalls, base, rets, log,
                   maxIssued>>

(* init_all_sequences: the next init_sequence of the loop *)
InitNext(t) ==
    /\ pc[t] = "init"
    /\ Existence(t, arg[t])
    /\ UNCHANGED <<factory, data, throttle>>
    /\ UNCHANGED <<userIdBase, db, lock, pend, row, err, ncalls, base,
                   rets, log, maxIssued>>

(* init_sequence: INSERT INTO id_sequences *)
InitInsert(t) ==
    /\ pc[t] = "insert"
    /\ LET k == arg[t].key IN
        /\ ~InsertPending(t, k)
        /\ IF UniqueViolation(k)
           THEN /\ err' = [err EXCEPT ![t] = IntegrityError(k)]
                /\ pc' = [pc EXCEPT ![t] = "fail"]
                /\ arg' = [arg EXCEPT ![t] = NoArg]
                /\ UNCHANGED row
           ELSE /\ row' = [row EXCEPT ![t] =
                            Effective(k, arg[t].defaults, userIdBase)]
                /\ pc' = [pc EXCEPT ![t] = "ins"]
                /\ UNCHANGED <<arg, err>>
    /\ res' = [res EXCEPT ![t] = NoResult]
    /\ UNCHANGED <<factory, data, throttle>>
    /\ UNCHANGED <<userIdBase, db, lock, pend, ncalls, base,
                   rets, log, maxIssued>>

(* init_sequence: await db.commit() *)
InitCommit(t) ==
    /\ pc[t] = "ins"
    /\ db' = Committed(t) @@ (arg[t].key :> row[t])
    /\ pend' = [pend EXCEPT ![t] = EmptyMap]
    /\ lock' = Released(t)
    /\ base' = [base EXCEPT ![t] = EmptyMap]
    /\ log' = Logged(t, 87)
    /\ rets' = [rets EXCEPT ![t] = <<>>]
    /\ row' = [row EXCEPT ![t] = None]
    /\ pc' = [pc EXCEPT ![t] = AfterInitPc(arg[t])]
    /\ arg' = [arg EXCEPT ![t] = AfterInitArg(arg[t])]
    /\ res' = [res EXCEPT ![t] = NoneResult(87, arg[t].key)]
    /\ UNCHANGED <<factory, data, throttle>>
    /\ UNCHANGED <<userIdBase, err, ncalls, maxIssued>>

(* the handler returns; DatabaseMiddleware commits the session *)
HandlerReturn(t) ==
    /\ pc[t] = "run"
    /\ data[t] = "session"
    /\ data' = [data EXCEPT ![t] = NoDb]
    /\ db' = Committed(t)
    /\ pend' = [pend EXCEPT ![t] = EmptyMap]
    /\ lock' = Released(t)
    /\ base' = [base EXCEPT ![t] = EmptyMap]
    /\ log' = Logged(t, 35)
    /\ rets' = [rets EXCEPT ![t] = <<>>]
    /\ res' = [res EXCEPT ![t] = NoResult]
    /\ pc' = [pc EXCEPT ![t] = "idle"]
    /\ UNCHANGED <<factory, throttle>>
    /\ UNCHANGED <<userIdBase, arg, row, err, ncalls, maxIssued>>

(* the handler raises an exception of its own *)
HandlerRaise(t) ==
    /\ pc[t] = "run"
    /\ err' = [err EXCEPT ![t] = HandlerError]
    /\ res' = [res EXCEPT ![t] = NoResult]
    /\ pc' = [pc EXCEPT ![t] = "fail"]
    /\ UNCHANGED <<factory, data, throttle>>
    /\ UNCHANGED <<userIdBase, db, lock, pend, arg, row, ncalls,
                   base, rets, log, maxIssued>>

(* DatabaseMiddleware: except Exception: rollback, re-raise *)
Rollback(t) ==
    /\ pc[t] = "fail"
    /\ data[t] = "session"
    /\ data' = [data EXCEPT ![t] = NoDb]
    /\ db' = RolledBack(t)
    /\ pend' = [pend EXCEPT ![t] = EmptyMap]
    /\ lock' = Released(t)
    /\ base' = [base EXCEPT ![t] = EmptyMap]
    /\ rets' = [rets EXCEPT ![t] = <<>>]
    /\ err' = [err EXCEPT ![t] = NoError]
    /\ pc' = [pc EXCEPT ![t] = "idle"]
    /\ UNCHANGED <<factory, throttle>>
    /\ UNCHANGED <<userIdBase, arg, row, res, ncalls, log, maxIssued>>

Next ==
    \E t \in Txns :
        \/ Begin(t)
        \/ \E sk \in SeqKeyInputs, o \in CallerOptions : GenSelect(t, sk, o)
        \/ GenAcquire(t)
        \/ GenUpdate(t)
        \/ \E sk \in SeqKeyInputs, d \in CallerDefaults : InitSelect(t, sk, d)
        \/ InitAll(t)
        \/ InitNext(t)
        \/ InitInsert(t)
        \/ InitCommit(t)
        \/ HandlerReturn(t)
        \/ HandlerRaise(t)
        \/ Rollback(t)

Spec == Init /\ [][Next]_vars

(* Handlers that allocate on several keys in one transaction, on a table   *)
(* in which init_sequence has created order_no and a caller's own key.     *)
(* Two sessions that hold one key each and wait for the other's are in a   *)
(* deadlock, which the store ends by failing the SELECT ... FOR UPDATE of  *)
(* one of them.                                                            *)
InitLive ==
    /\ userIdBase = UserIdBaseMin
    /\ db = [k \in {"order_no", "custom"} |->
                Effective(k, Config(0, 1, 1, "ORD", "orders"), userIdBase)]
    /\ lock = [k \in Keys |-> NoTxn]
    /\ pend = [t \in Txns |-> EmptyMap]
    /\ pc = [t \in Txns |-> "idle"]
    /\ arg = [t \in Txns |-> NoArg]
    /\ row = [t \in Txns |-> None]
    /\ res = [t \in Txns |-> NoResult]
    /\ err = [t \in Txns |-> NoError]
    /\ ncalls = 0
    /\ base = [t \in Txns |-> EmptyMap]
    /\ rets = [t \in Txns |-> <<>>]
    /\ log = [k \in Keys |-> <<>>]
    /\ maxIssued = [k \in Keys |-> 0]
    /\ factory = TRUE
    /\ NoUpdates

\* session t waits for a key held by a session that waits for a key of t
InWaitCycle(t) ==
    /\ pc[t] = "select"
    /\ \E o \in Txns \ {t} :
        /\ lock[arg[t].key] = o
        /\ pc[o] = "select"
        /\ lock[arg[o].key] = t

(* generate_sequence_id: the SELECT ... FOR UPDATE fails on a deadlock *)
DeadlockAbort(t) ==
    /\ InWaitCycle(t)
    /\ err' = [err EXCEPT ![t] = DeadlockError]
    /\ pc' = [pc EXCEPT ![t] = "fail"]
    /\ arg' = [arg EXCEPT ![t] = NoArg]
    /\ UNCHANGED <<factory, data, throttle>>
    /\ UNCHANGED <<userIdBase, db, lock, pend, row, res, ncalls, base, rets,
                   log, maxIssued>>

NextLive ==
    \E t \in Txns :
        \/ Begin(t)
        \/ \E sk \in {Enum("ORDER_NO"), Plain("custom")} :
            GenSelectN(t, sk, Options(FALSE, FALSE, DefaultFormat),
                       MaxLiveCalls)
        \/ GenAcquire(t)
        \/ DeadlockAbort(t)
        \/ GenUpdate(t)
        \/ HandlerReturn(t)
        \/ Rollback(t)

\* every session's steps are taken when they stay possible
Fairness ==
    \A t \in Txns :
        /\ WF_vars(GenAcquire(t))
        /\ WF_vars(DeadlockAbort(t))
        /\ WF_vars(GenUpdate(t))
        /\ WF_vars(HandlerReturn(t))
        /\ WF_vars(Rollback(t))

SpecLive == InitLive /\ [][NextLive]_vars /\ Fairness

(* DatabaseMiddleware in all its branches: updates arrive with or without  *)
(* a session in data["db"] (webhook or polling mode), and the session      *)
(* factory is configured or not.  A session that came with the update is   *)
(* closed by the code that supplied it.                                    *)
InitMw ==
    /\ userIdBase = UserIdBaseMin
    /\ db = SEQ_INIT_CONFIG(userIdBase)
    /\ lock = [k \in Keys |-> NoTxn]
    /\ pend = [t \in Txns |-> EmptyMap]
    /\ pc = [t \in Txns |-> "idle"]
    /\ arg = [t \in Txns |-> NoArg]
    /\ row = [t \in Txns |-> None]
    /\ res = [t \in Txns |-> NoResult]
    /\ err = [t \in Txns |-> NoError]
    /\ ncalls = 0
    /\ base = [t \in Txns |-> EmptyMap]
    /\ rets = [t \in Txns |-> <<>>]
    /\ log = [k \in Keys |-> <<>>]
    /\ maxIssued = [k \in Keys |-> 0]
    /\ factory \in BOOLEAN
    /\ NoUpdates

(* an update is fed to the middleware chain, with a session or without *)
Arrive(t, given) ==
    /\ pc[t] = "idle"
    /\ pc' = [pc EXCEPT ![t] = "mw"]
    /\ data' = [data EXCEPT ![t] = IF given THEN "given" ELSE NoDb]
    /\ UNCHANGED <<factory, throttle>>
    /\ UNCHANGED <<userIdBase, db, lock, pend, arg, row, res, err, ncalls,
                   base, rets, log, maxIssued>>

(* DatabaseMiddleware.__call__ calls the handler *)
DbMiddleware(t) ==
    /\ Enter(t, "mw")
    /\ UNCHANGED throttle

(* webhook mode: return await handler(event, data), the handler returned *)
WebhookReturn(t) ==
    /\ pc[t] = "run"
    /\ data[t] = "given"
    /\ res' = [res EXCEPT ![t] = NoResult]
    /\ pc' = [pc EXCEPT ![t] = "ext"]
    /\ UNCHANGED <<factory, data, throttle>>
    /\ UNCHANGED <<userIdBase, db, lock, pend, arg, row, err, ncalls,
                   base, rets, log, maxIssued>>

(* webhook mode: return await handler(event, data), the handler raised *)
WebhookRaise(t) ==
    /\ pc[t] = "fail"
    /\ data[t] = "given"
    /\ pc' = [pc EXCEPT ![t] = "ext"]
    /\ UNCHANGED <<factory, data, throttle>>
    /\ UNCHANGED <<userIdBase, db, lock, pend, arg, row, res, err, ncalls,
                   base, rets, log, maxIssued>>

(* the supplier of the session ends it: commit on success, rollback on an  *)
(* exception                                                               *)
ExternalClose(t) ==
    /\ pc[t] = "ext"
    /\ IF err[t] = NoError
       THEN /\ db' = Committed(t)
            /\ log' = Logged(t, 0)
       ELSE /\ db' = RolledBack(t)
            /\ UNCHANGED log
    /\ pend' = [pend EXCEPT ![t] = EmptyMap]
    /\ lock' = Released(t)
    /\ base' = [base EXCEPT ![t] = EmptyMap]
    /\ rets' = [rets EXCEPT ![t] = <<>>]
    /\ err' = [err EXCEPT ![t] = NoError]
    /\ data' = [data EXCEPT ![t] = NoDb]
    /\ pc' = [pc EXCEPT ![t] = "idle"]
    /\ UNCHANGED <<factory, throttle>>
    /\ UNCHANGED <<userIdBase, arg, row, res, ncalls, maxIssued>>

(* no session factory: return await handler(event, data), handler returned *)
PlainReturn(t) ==
    /\ pc[t] = "run"
    /\ data[t] = NoDb
    /\ res' = [res EXCEPT ![t] = NoResult]
    /\ pc' = [pc EXCEPT ![t] = "idle"]
    /\ UNCHANGED <<factory, data, throttle>>
    /\ UNCHANGED <<userIdBase, db, lock, pend, arg, row, err, ncalls,
                   base, rets, log, maxIssued>>

(* no session factory: return await handler(event, data), handler raised *)
PlainRaise(t) ==
    /\ pc[t] = "fail"
    /\ data[t] = NoDb
    /\ err' = [err EXCEPT ![t] = NoError]
    /\ pc' = [pc EXCEPT ![t] = "idle"]
    /\ UNCHANGED <<factory, data, throttle>>
    /\ UNCHANGED <<userIdBase, db, lock, pend, arg, row, res, ncalls,
                   base, rets, log, maxIssued>>

NextMw ==
    \E t \in Txns :
        \/ \E given \in BOOLEAN : Arrive(t, given)
        \/ DbMiddleware(t)
        \/ GenSelect(t, Enum("ORDER_NO"), Options(FALSE, FALSE, DefaultFormat))
        \/ GenAcquire(t)
        \/ GenUpdate(t)
        \/ HandlerReturn(t)
        \/ HandlerRaise(t)
        \/ Rollback(t)
        \/ WebhookReturn(t)
        \/ WebhookRaise(t)
        \/ ExternalClose(t)
        \/ PlainReturn(t)
        \/ PlainRaise(t)

SpecMw == InitMw /\ [][NextMw]_vars

(* ThrottlingMiddleware in front of DatabaseMiddleware (setup_middlewares   *)
(* registers it earlier, so it runs first), in polling mode.               *)

\* if user_id:
Throttles(uid) == uid # NoUser /\ uid # 0

\* self._user_last_time.get(user_id, 0)
Last(uid) == IF uid \in DOMAIN lastTime THEN lastTime[uid] ELSE 0

\* variant: the limit is taken one unit too short
TooSoon_Short(n, last) == n - last < RateLimit - 1

\* now - last_time < self.rate_limit
TooSoon(n, last) == n - last < RateLimit

(* time passes *)
Tick ==
    /\ time < MaxTime
    /\ time' = time + 1
    /\ UNCHANGED <<lastTime, lastPass, ev, factory, data>>
    /\ UNCHANGED <<userIdBase, db, lock, pend, pc, arg, row, res, err, ncalls,
                   base, rets, log, maxIssued>>

(* ThrottlingMiddleware.__call__: the update is dropped, return None *)
Throttled(t, uid) ==
    /\ pc[t] = "idle"
    /\ Throttles(uid)
    /\ TooSoon(time, Last(uid))
    /\ ev' = [user |-> uid, out |-> "throttled", slot |-> t]
    /\ UNCHANGED <<time, lastTime, lastPass, factory, data>>
    /\ UNCHANGED <<userIdBase, db, lock, pend, pc, arg, row, res, err, ncalls,
                   base, rets, log, maxIssued>>

(* ThrottlingMiddleware.__call__: the update goes on to the next middleware *)
Passed(t, uid) ==
    /\ pc[t] = "idle"
    /\ ~(Throttles(uid) /\ TooSoon(time, Last(uid)))
    /\ lastTime' = IF Throttles(uid)
                   THEN [u \in DOMAIN lastTime \cup {uid} |->
                            IF u = uid THEN time ELSE lastTime[u]]
                   ELSE lastTime
    /\ lastPass' = IF uid # NoUser
                   THEN [u \in DOMAIN lastPass \cup {uid} |->
                            IF u = uid THEN time ELSE lastPass[u]]
                   ELSE lastPass
    /\ ev' = [user |-> uid, out |-> "passed", slot |-> t]
    /\ pc' = [pc EXCEPT ![t] = "mw"]
    /\ UNCHANGED <<time, factory, data>>
    /\ UNCHANGED <<userIdBase, db, lock, pend, arg, row, res, err, ncalls,
                   base, rets, log, maxIssued>>

NextThrottle ==
    \/ Tick
    \/ \E t \in Txns :
        \/ \E uid \in UserIds \cup {NoUser} : Throttled(t, uid)
        \/ \E uid \in UserIds \cup {NoUser} : Passed(t, uid)
        \/ DbMiddleware(t)
        \/ HandlerReturn(t)
        \/ HandlerRaise(t)
        \/ Rollback(t)

SpecThrottle == Init /\ [][NextThrottle]_vars

(* the same program with callers that pass any integers to init_sequence *)
NextAny ==
    \/ Next
    \/ \E t \in Txns, sk \in SeqKeyInputs, d \in UncheckedDefaults :
            InitSelect(t, sk, d)

SpecAny == Init /\ [][NextAny]_vars

-----------------------------------------------------------------------------
(* Properties *)

\* the values returned for key k by the open transaction of session t
PendingVals(t, k) == SelectSeq(rets[t], LAMBDA e : e.key = k)

\* the values returned for key k by transactions that committed or are open
Live(k) == log[k] \o PendingVals("t1", k) \o PendingVals("t2", k)

Increasing(entries) ==
    \A i, j \in 1..Len(entries) : i < j => entries[i].val < entries[j].val

\* session t takes the step that ends generate_sequence_id normally
Returns(t) == pc[t] = "locked" /\ pc'[t] = "run"

\* C1: the values returned for one key by concurrent allocations, each in its
\* own transaction, committed or still to commit, are pairwise distinct
C1_DistinctValues ==
    \A k \in Keys :
        \A i, j \in 1..Len(Live(k)) :
            i # j => Live(k)[i].val # Live(k)[j].val

\* two sessions allocated on one key, the second while the first held the
\* row lock, and both committed
C1_Witness ==
    \E k \in Keys :
        \E i \in 2..Len(log[k]) :
            log[k][i].contended /\ log[k][i].by # log[k][i - 1].by

\* C2: per key, the values returned by committed allocations increase strictly
\* in commit order, and the committed current_value never decreases and is
\* strictly greater after every commit of an allocation
C2_Monotonic ==
    [][\A k \in DOMAIN db :
        /\ k \in DOMAIN db'
        /\ db'[k].cv >= db[k].cv
        /\ Increasing(log'[k])
        /\ log'[k] # log[k] =>
            /\ db'[k].cv > db[k].cv
            /\ db'[k].cv = log'[k][Len(log'[k])].val]_vars

C2_Witness == \E k \in Keys : Len(log[k]) >= 2

\* C3: a rollback after the write leaves the committed current_value what it
\* was when the allocation locked the row, and the next allocation reads that
\* committed value
C3_RollbackRestores ==
    [][\A t \in Txns :
        /\ (pc[t] = "fail" /\ pc'[t] = "idle") =>
                \A k \in DOMAIN pend[t] : db'[k].cv = base[t][k]
        /\ (pc[t] # "locked" /\ pc'[t] = "locked"
                /\ arg'[t].key \notin DOMAIN pend[t]) =>
                row'[t].cv = db[arg'[t].key].cv]_vars

\* a value was returned for a key, its transaction was rolled back, and the
\* next allocation on the key has read the row
C3_Witness ==
    \E k \in Keys, t \in Txns :
        /\ pc[t] = "locked"
        /\ arg[t].key = k
        /\ Live(k) = <<>>
        /\ maxIssued[k] > db[k].cv

\* C4 as stated: every returned value is strictly greater than every value
\* returned earlier for the key, rolled-back calls included
C4_NeverReturnedTwice ==
    [][\A t \in Txns :
        Returns(t) =>
            LET e == rets'[t][Len(rets'[t])] IN e.val > maxIssued[e.key]]_vars

\* C4 amended: every returned value is strictly greater than every value
\* returned earlier for the key by a call whose transaction committed or is
\* still open
C4_GreaterThanCommitted ==
    [][\A t \in Txns :
        Returns(t) =>
            LET e == rets'[t][Len(rets'[t])] IN
            \A i \in 1..Len(Live(e.key)) : Live(e.key)[i].val < e.val]_vars

\* a value is returned for a key after an earlier value of the key committed
C4_Witness ==
    \E k \in Keys, t \in Txns : log[k] # <<>> /\ PendingVals(t, k) # <<>>

\* session t takes the step that calls generate_sequence_id
CallsGenerate(t) ==
    pc[t] = "run" /\ ncalls' # ncalls /\ pc'[t] \in {"fail", "locked", "select"}

\* C5: generate_sequence_id on a key without a row raises ValueError, and
\* neither that step nor the rollback it causes creates or changes a row
C5_NotFound ==
    [][\A t \in Txns :
        /\ CallsGenerate(t) =>
            IF pc'[t] = "fail"
            THEN /\ err'[t].type = "ValueError"
                 /\ err'[t].key \notin DOMAIN db
                 /\ UNCHANGED <<db, pend, lock>>
            ELSE arg'[t].key \in DOMAIN db
        /\ (pc[t] = "fail" /\ err[t].type = "ValueError" /\ pc'[t] = "idle") =>
            db' = db]_vars

\* an allocation on a missing key failed while other rows exist
C5_Witness ==
    \E t \in Txns :
        /\ pc[t] = "fail"
        /\ err[t].type = "ValueError"
        /\ DOMAIN db # {}

\* session t takes the step in which init_sequence finds the row and returns
InitNoOp(t) == pc[t] \in {"run", "init"} /\ res'[t].line = 75 /\ res'[t] # res[t]

\* C6: init_sequence on a key whose row exists changes no row, whatever
\* defaults it is given and whatever was allocated before
C6_InitIdempotent ==
    [][\A t \in Txns :
        InitNoOp(t) =>
            /\ res'[t].key \in DOMAIN db
            /\ UNCHANGED <<db, pend, lock, log>>]_vars

\* init_sequence returned early on a key that had allocations committed
C6_Witness ==
    \E t \in Txns : res[t].line = 75 /\ log[res[t].key] # <<>>

\* the configuration the documentation gives for the well-known keys
Documented(key, ubase) ==
    IF key = "user_id" THEN Config(ubase, 1, 20, None, "UserID")
    ELSE Config(1, 1, 1, "ORD", "RechargeOrderNo")

\* C7: the row init_sequence creates holds the static configuration for
\* user_id and order_no (enum member or plain string) and the caller's values
\* for every other key
C7_KnownConfigWins ==
    [][\A t \in Txns :
        (pc[t] = "ins" /\ pc'[t] # "ins") =>
            LET k == arg[t].key IN
            /\ k \notin DOMAIN db
            /\ userIdBase \in UserIdBaseMin..UserIdBaseMax
            /\ db'[k] = IF k \in {"user_id", "order_no"}
                        THEN Documented(k, userIdBase)
                        ELSE arg[t].defaults]_vars

\* a known key passed as a plain string with other defaults has been inserted
C7_Witness ==
    \E t \in Txns :
        /\ pc[t] = "ins"
        /\ ~arg[t].seq_key.isEnum
        /\ arg[t].key = "order_no"
        /\ arg[t].defaults # row[t]
        /\ row[t].prefix = "ORD"

\* C8 as stated: no caller of init_sequence / init_all_sequences racing on an
\* absent key ends with an error
C8_RaceIsNoOp ==
    \A t \in Txns : err[t].type # "IntegrityError"

\* the parts of a formatted result
PrefixPart(prefix, with_prefix) ==
    IF with_prefix /\ prefix \notin {None, ""} THEN prefix ELSE ""
DatePart(with_datetime, fmt, now) ==
    IF with_datetime THEN Strftime(now, fmt) ELSE ""
NumberPart(n) ==
    IF n >= 100000 THEN Str(n)
    ELSE IF n >= 10000 THEN "0" \o Str(n)
    ELSE IF n >= 1000 THEN "00" \o Str(n)
    ELSE IF n >= 100 THEN "000" \o Str(n)
    ELSE IF n >= 10 THEN "0000" \o Str(n)
    ELSE "00000" \o Str(n)

\* C9: with an option set the result is prefix, timestamp and the number
\* padded to 6 digits, in this order; the stored value is the bare new_value;
\* the documented example gives ORD2312231530000001
C9_Formatted ==
    [][\A t \in Txns :
        (Returns(t) /\ (arg[t].opts.with_prefix \/ arg[t].opts.with_datetime)) =>
            LET o == arg[t].opts
                k == arg[t].key
                new_value == pend'[t][k]
            IN
            /\ new_value - row[t].cv \in row[t].smin..row[t].smax
            /\ res'[t].type = "str"
            /\ \E now \in Clock :
                res'[t].value =
                    PrefixPart(row[t].prefix, o.with_prefix)
                    \o DatePart(o.with_datetime, o.datetime_format, now)
                    \o NumberPart(new_value)
            /\ (/\ row[t].prefix = "ORD" /\ row[t].cv = 0
                /\ row[t].smin = 1 /\ row[t].smax = 1
                /\ o.with_prefix /\ o.with_datetime
                /\ o.datetime_format = DefaultFormat) =>
                    res'[t].value \in
                        {"ORD2312231530000001", "ORD2401050907000001"}]_vars

\* the documented example has been returned
C9_Witness ==
    \E t \in Txns :
        res[t].type = "str" /\ res[t].value = "ORD2312231530000001"

\* C10: the result is the bare integer new_value exactly when neither option
\* is set; with an option set it is a string, also without a configured prefix
C10_RawInteger ==
    [][\A t \in Txns :
        Returns(t) =>
            LET o == arg[t].opts
                new_value == pend'[t][arg[t].key]
            IN
            /\ res'[t].type = "int" <=> (~o.with_prefix /\ ~o.with_datetime)
            /\ res'[t].type = "int" => res'[t].value = new_value
            /\ res'[t].type # "int" => res'[t].type = "str"
            /\ (o.with_prefix /\ ~o.with_datetime
                    /\ row[t].prefix \in {None, ""}) =>
                res'[t].value = NumberPart(new_value)]_vars

\* a counter reached 1234567 and was returned as the bare integer
C10_Witness ==
    \E t \in Txns : res[t].type = "int" /\ res[t].value = 1234567

\* session t's transaction is committed in this step: by init_sequence's own
\* db.commit() or by the middleware after the handler returned
CommitsSession(t) ==
    \/ pc[t] = "ins" /\ pc'[t] # "ins"
    \/ pc[t] = "run" /\ pc'[t] = "idle"

\* session t's transaction is rolled back in this step
RollsBackSession(t) == pc[t] = "fail" /\ pc'[t] = "idle"

\* C11 as stated: the session of a handler invocation is committed or rolled
\* back only in the step that ends the invocation; no sequence operation
\* running inside the handler commits or rolls it back before
C11_FinalizedOnce ==
    [][\A t \in Txns :
        (CommitsSession(t) \/ RollsBackSession(t)) => pc'[t] = "idle"]_vars

\* C12: per key at most one session is between its locked read and the end of
\* its transaction; that session holds the key's lock while it writes and
\* until its transaction ends, and the value it computes from is the current
\* one
C12_OneHolderPerKey ==
    \A k \in Keys :
        /\ Cardinality({t \in Txns : k \in DOMAIN base[t]}) <= 1
        /\ \A t \in Txns :
            /\ k \in DOMAIN base[t] => lock[k] = t
            /\ k \in DOMAIN pend[t] => lock[k] = t
            /\ (pc[t] = "locked" /\ arg[t].key = k) =>
                /\ lock[k] = t
                /\ row[t].cv = ViewCv(t, k)
                /\ \A o \in Txns \ {t} : k \notin DOMAIN pend[o]

\* a session waits for a key whose holder has written and not yet committed
C12_Witness ==
    \E t \in Txns, o \in Txns :
        /\ o # t
        /\ pc[t] = "select"
        /\ lock[arg[t].key] = o
        /\ arg[t].key \in DOMAIN pend[o]

\* C13: a locked read on a key whose lock is free (or the session's own) is
\* never made to wait, whichever other keys are locked: the call gets the row
\* at once, and a read that waited is enabled as soon as the lock is free
C13_OtherKeysDoNotBlock ==
    [][\A t \in Txns :
        /\ (CallsGenerate(t) /\ pc'[t] # "fail"
                /\ lock[arg'[t].key] \in {NoTxn, t}) =>
            pc'[t] = "locked"
        /\ (pc[t] = "select" /\ lock[arg[t].key] \in {NoTxn, t}) =>
            ENABLED GenAcquire(t)]_vars

\* a session has read a key under lock while another session holds the lock
\* of a different key
C13_Witness ==
    \E t \in Txns, o \in Txns, k \in Keys :
        /\ o # t
        /\ pc[t] = "locked"
        /\ lock[k] = o
        /\ k # arg[t].key

\* the current_value with which row r of key k was created
InitialValue(k, r) ==
    IF k \in KnownKeys THEN Documented(k, userIdBase).cv
    ELSE (CHOOSE d \in CallerDefaults :
            [d EXCEPT !.cv = 0] = [r EXCEPT !.cv = 0]).cv

\* C15: a successful allocation writes current_value + step with
\* step_min <= step <= step_max, and step = step_min when the two are equal;
\* after k committed allocations on a key created with value v the committed
\* current_value lies in v + k * step_min .. v + k * step_max
C15_StepWithinBounds ==
    [][/\ \A t \in Txns :
            Returns(t) =>
                LET k == arg[t].key
                    step == pend'[t][k] - ViewCv(t, k)
                IN
                /\ step \in db[k].smin..db[k].smax
                /\ db[k].smin = db[k].smax => step = db[k].smin
       /\ \A k \in DOMAIN db' :
            LET n == Len(log'[k])
                v == InitialValue(k, db'[k])
            IN
            /\ db'[k].cv >= v + n * db'[k].smin
            /\ db'[k].cv <= v + n * db'[k].smax]_vars

\* two allocations on a key with a step range committed, and their steps were
\* neither both the smallest nor both the greatest
C15_Witness ==
    \E k \in DOMAIN db :
        LET v == InitialValue(k, db[k]) IN
        /\ Len(log[k]) = 2
        /\ db[k].cv > v + 2 * db[k].smin
        /\ db[k].cv < v + 2 * db[k].smax

\* C17: a row, once it exists, is never deleted and keeps its step_min,
\* step_max, prefix and description; generate_sequence_id writes only the
\* current_value of the key it was called for, and a committed current_value
\* changes only when an allocation on that very key commits
C17_RowsKeepConfig ==
    [][/\ \A k \in DOMAIN db :
            /\ k \in DOMAIN db'
            /\ [db'[k] EXCEPT !.cv = 0] = [db[k] EXCEPT !.cv = 0]
            /\ db'[k].cv # db[k].cv =>
                \E t \in Txns :
                    /\ CommitsSession(t)
                    /\ k \in DOMAIN pend[t]
                    /\ db'[k].cv = pend[t][k]
       /\ \A t \in Txns :
            Returns(t) =>
                /\ db' = db
                /\ \A o \in Txns \ {t} : pend'[o] = pend[o]
                /\ DOMAIN pend'[t] = DOMAIN pend[t] \cup {arg[t].key}
                /\ \A x \in DOMAIN pend[t] \ {arg[t].key} :
                    pend'[t][x] = pend[t][x]]_vars

\* an allocation committed on one key while another row has had none
C17_Witness ==
    \E k \in DOMAIN db, j \in DOMAIN db :
        /\ k # j
        /\ log[k] # <<>>
        /\ log[j] = <<>>
        /\ db[j].cv = InitialValue(j, db[j])

\* C18: init_sequence commits the caller's session exactly when it inserts a
\* row: the row and every uncommitted write of the session become durable and
\* the session's row locks are released in that step; when the row exists
\* nothing is committed; a later rollback leaves every committed value
C18_InitCommitsSession ==
    [][\A t \in Txns :
        /\ (pc[t] = "ins" /\ pc'[t] # "ins") =>
            /\ arg[t].key \notin DOMAIN db
            /\ arg[t].key \in DOMAIN db'
            /\ \A k \in DOMAIN pend[t] : db'[k].cv = pend[t][k]
            /\ pend'[t] = EmptyMap
            /\ \A k \in Keys : lock'[k] # t
        /\ InitNoOp(t) => UNCHANGED <<db, pend, lock>>
        /\ RollsBackSession(t) =>
            \A k \in DOMAIN db :
                log[k] # <<>> => db'[k].cv = log[k][Len(log[k])].val]_vars

\* an allocation's value was committed by init_sequence's commit, and the
\* handler of that session has raised since
C18_Witness ==
    \E k \in DOMAIN db :
        LET e == log[k][Len(log[k])] IN
        /\ log[k] # <<>>
        /\ e.at = 87
        /\ pc[e.by] = "fail"
        /\ err[e.by] = HandlerError
        /\ db[k].cv = e.val

\* C16 as stated: every row satisfies 1 <= step_min <= step_max, whatever
\* integers the callers of init_sequence pass for keys without a static
\* configuration
C16_StepsValid ==
    \A k \in DOMAIN db : 1 <= db[k].smin /\ db[k].smin <= db[k].smax

\* C14 as stated: under weak fairness every call that waits for a key's lock
\* eventually gets the row and returns its value
C14_BlockedReturns ==
    \A t \in Txns :
        (pc[t] = "select") ~> (pc[t] = "run" /\ res[t].type = "int")

\* C14 amended: under weak fairness every call that waits for a key's lock
\* eventually gets the row and returns its value, or is failed by the store
\* because it waits in a cycle of lock waits; no call waits forever
C14_BlockedReturnsOrAborts ==
    \A t \in Txns :
        (pc[t] = "select") ~>
            \/ pc[t] = "run" /\ res[t].type = "int"
            \/ pc[t] = "fail" /\ err[t] = DeadlockError

\* two sessions waited for each other's keys, the store has failed the call
\* of one of them, and the other still waits for the key that one holds
C14_Witness ==
    \E t \in Txns, o \in Txns :
        /\ pc[o] = "fail"
        /\ err[o] = DeadlockError
        /\ pc[t] = "select"
        /\ lock[arg[t].key] = o
        /\ rets[t] # <<>>

\* the middleware returns to its caller: the handler returned or raised
HandlerEnds(t) == pc[t] \in {"run", "fail"} /\ pc'[t] \in {"idle", "ext"}

\* C19: DatabaseMiddleware calls the handler once for every update in each of
\* its branches.  A session that came in data["db"] stays there and is
\* neither committed nor rolled back by the middleware; without a session
\* factory no session is opened; otherwise the middleware opens a session,
\* stores it in data["db"], and commits it when the handler returns or rolls
\* it back when the handler raises
C19_Branches ==
    [][\A t \in Txns :
        /\ pc[t] = "mw" => pc'[t] \in {"mw", "run"}
        /\ pc[t] \in {"idle", "ext"} => pc'[t] # "run"
        /\ (pc[t] = "mw" /\ pc'[t] = "run") =>
            /\ UNCHANGED <<db, pend, lock>>
            /\ data[t] = "given" => data'[t] = "given"
            /\ (data[t] = NoDb /\ ~factory) => data'[t] = NoDb
            /\ (data[t] = NoDb /\ factory) => data'[t] = "session"
        /\ (pc[t] \notin {"idle", "mw", "ext"} /\ pc'[t] # "idle") =>
            data'[t] = data[t]
        /\ (HandlerEnds(t) /\ data[t] = "given") =>
            /\ UNCHANGED <<db, pend, lock>>
            /\ pc'[t] = "ext"
        /\ (HandlerEnds(t) /\ data[t] = NoDb) =>
            /\ UNCHANGED <<db, pend, lock>>
            /\ pend[t] = EmptyMap
        /\ (HandlerEnds(t) /\ data[t] = "session") =>
            /\ pend'[t] = EmptyMap
            /\ \A k \in Keys : lock'[k] # t
            /\ \A k \in DOMAIN pend[t] :
                db'[k].cv = IF pc[t] = "run" THEN pend[t][k] ELSE db[k].cv]_vars

\* the handler of an update that came with a session has returned with an
\* uncommitted allocation, while a session the middleware opened itself has
\* committed one
C19_Witness ==
    \E t \in Txns :
        /\ pc[t] = "ext"
        /\ data[t] = "given"
        /\ pend[t] # EmptyMap
        /\ factory
        /\ \E i \in 1..Len(log["order_no"]) : log["order_no"][i].at = 35

\* at least rate_limit has passed since the last update of user u that was
\* passed on, if there was one
Elapsed(u) == u \notin DOMAIN lastPass \/ time - lastPass[u] >= RateLimit

\* C20: an update of a non-zero user id is passed on only if at least
\* rate_limit has elapsed since that user's last update that was passed on; a
\* throttled update reaches no handler, opens no session and leaves the
\* recorded times; updates of other users, of user id 0 and without a user are
\* passed on whatever was recorded
C20_Throttle ==
    [][\A t \in Txns :
        /\ (pc[t] = "idle" /\ pc'[t] # "idle") =>
            LET u == ev'.user IN
            /\ pc'[t] = "mw"
            /\ ev'.out = "passed"
            /\ ev'.slot = t
            /\ (u # NoUser /\ u # 0) =>
                /\ Elapsed(u)
                /\ lastTime'[u] = time
            /\ \A w \in DOMAIN lastTime \ {u} :
                w \in DOMAIN lastTime' /\ lastTime'[w] = lastTime[w]
        /\ (ev' # ev /\ ev'.out = "throttled" /\ ev'.slot = t) =>
            /\ ev'.user \notin {NoUser, 0}
            /\ ~Elapsed(ev'.user)
            /\ UNCHANGED <<pc, data, lastTime, db, pend, lock>>
        /\ \A u \in UserIds \cup {NoUser} :
            (pc[t] = "idle" /\ (u \in {NoUser, 0} \/ Elapsed(u))) =>
                ENABLED Passed(t, u)]_vars

\* user 7 is throttled at the very time at which user 8 was passed on
C20_Witness ==
    /\ ev.out = "throttled"
    /\ ev.user = 7
    /\ 8 \in DOMAIN lastPass
    /\ lastPass[8] = time
    /\ lastTime[7] < time

====
